---------------------------- MODULE Spec2Model ----------------------------
(***************************************************************************)
(* Model of FourBar/FourBar_App.py: the MainWindow of the four-bar linkage *)
(* application, its spin boxes, buttons and scene event filter, together   *)
(* with the simulation core it drives (FourBarLinkage_Controller).  The    *)
(* controller's source is FourBarLinkage_MVC, which is not part of         *)
(* FourBar_App.py; its operations are modelled from sections 3, 4.2, 4.3,  *)
(* 6 and 7 of the specification and are prefixed FBL_C_.                   *)
(*                                                                         *)
(* Units: mass, spring constant and damping coefficient are integers in    *)
(* hundredths (a QDoubleSpinBox shows two decimals), angles are integer    *)
(* degrees, the angular velocity is in degrees per tick.                   *)
(***************************************************************************)
EXTENDS Integers, Sequences, FiniteSets

VARIABLES
    \* MainWindow: widgets and fields
    nud_MinAngle, nud_MaxAngle, nud_Damping, nud_Mass, nud_Spring,
    nud_InputAngle, mouseDown, btn_PauseResume,
    \* FourBarLinkage_Controller / model
    simState, tracer, minAngle, maxAngle, mass, springConstant,
    dampingCoefficient, angle, angularVelocity, dragActive,
    \* what the last step did: its name, the raw value the user typed,
    \* the controller calls it made, whether it showed the warning box,
    \* the errors it logged, and the exception that left the handler
    handler, typed, calls, warned, logged, escaped,
    \* history: a left-button press on the scene with no release after it
    leftHeld

ui  == <<nud_MinAngle, nud_MaxAngle, nud_Damping, nud_Mass, nud_Spring,
         nud_InputAngle, mouseDown, btn_PauseResume>>
osc == <<mass, springConstant, dampingCoefficient>>
lim == <<minAngle, maxAngle>>
ctl == <<simState, tracer, minAngle, maxAngle, mass, springConstant,
         dampingCoefficient, angle, angularVelocity, dragActive>>
rep == <<handler, typed, calls, warned, logged, escaped>>
vars == <<ui, ctl, rep, leftHeld>>

---------------------------------------------------------------------------
(* Spin box ranges and defaults of _initControls (hundredths for m, k, c). *)
AngleMin     == -360
AngleMax     == 360
MinAngleDflt == 0
MaxAngleDflt == 180
DampingMin   == 0
DampingMax   == 100000
DampingDflt  == 5000
(* a range that starts at 0, as the Damping and Spring boxes' do *)
MassMin_Zero == DampingMin
MassMin      == 10
MassMax      == 10000
MassDflt     == 100
SpringMin    == 0
SpringMax    == 100000
SpringDflt   == 10000

(* Bounds of the model. *)
MaxTracer == 3
MaxVel    == 60

(* Values a user types into the spin boxes; some lie outside the ranges. *)
AngleInputs      == {-400, 0, 90, 180}
MassInputs       == {-100, 0, 100, 400}
SpringInputs     == {-100, 0, 10000, 40000}
DampingInputs    == {-100, 0, 2000, 5000}
InputAngleInputs == {90, 270}
(* Input angles the inverse solve of a drag target yields. *)
DragAngles       == {45, 200}

NoError == "none"
NoInput == <<>>

---------------------------------------------------------------------------
(* QDoubleSpinBox: a typed value outside [lo, hi] is not accepted and the  *)
(* box keeps its value (setRange, line 92).                                *)
InRange(v, lo, hi) == lo <= v /\ v <= hi

Report(h, t, cs, wn, lg, es) ==
    /\ handler' = h
    /\ typed'   = t
    /\ calls'   = cs
    /\ warned'  = wn
    /\ logged'  = lg
    /\ escaped' = es

Init ==
    /\ nud_MinAngle = MinAngleDflt
    /\ nud_MaxAngle = MaxAngleDflt
    /\ nud_Damping = DampingDflt
    /\ nud_Mass = MassDflt
    /\ nud_Spring = SpringDflt
    /\ nud_InputAngle = 90
    /\ mouseDown = FALSE
    /\ btn_PauseResume = "Pause/Resume"
    /\ simState = "Stopped"
    /\ tracer = <<>>
    /\ minAngle = MinAngleDflt
    /\ maxAngle = MaxAngleDflt
    /\ mass = MassDflt
    /\ springConstant = SpringDflt
    /\ dampingCoefficient = DampingDflt
    /\ angle = 90
    /\ angularVelocity = 0
    /\ dragActive = FALSE
    /\ handler = "init"
    /\ typed = NoInput
    /\ calls = <<>>
    /\ warned = FALSE
    /\ logged = <<>>
    /\ escaped = NoError
    /\ leftHeld = FALSE

---------------------------------------------------------------------------
(* FourBarLinkage_Controller, from the specification (sections 6 and 7):   *)
(* validated setters that fail with InvalidParameter on a non-positive     *)
(* mass or a negative spring constant or damping coefficient and keep the  *)
(* prior value.                                                            *)
FBL_C_validMass(v)    == v > 0
FBL_C_validSpring(v)  == v >= 0
FBL_C_validDamping(v) == v >= 0

(* updateMass, lines 141-145; the valueChanged signal of nud_Mass.         *)
updateMass(v) ==
    /\ mass' = IF FBL_C_validMass(v) THEN v ELSE mass
    /\ Report("updateMass", <<v>>, << <<"setMass", v>> >>, FALSE,
              IF FBL_C_validMass(v) THEN <<>>
              ELSE << <<"updateMass", "InvalidParameter">> >>, NoError)

(* updateSpring, lines 147-151.                                            *)
updateSpring(v) ==
    /\ springConstant' = IF FBL_C_validSpring(v) THEN v ELSE springConstant
    /\ Report("updateSpring", <<v>>, << <<"setSpringConstant", v>> >>, FALSE,
              IF FBL_C_validSpring(v) THEN <<>>
              ELSE << <<"updateSpring", "InvalidParameter">> >>, NoError)

(* updateDamping, lines 135-139.                                           *)
updateDamping(v) ==
    /\ dampingCoefficient' =
           IF FBL_C_validDamping(v) THEN v ELSE dampingCoefficient
    /\ Report("updateDamping", <<v>>, << <<"setDampingCoefficient", v>> >>,
              FALSE,
              IF FBL_C_validDamping(v) THEN <<>>
              ELSE << <<"updateDamping", "InvalidParameter">> >>, NoError)

(* The user types v into the Mass box.  A value in range that differs from *)
(* the box's value is taken and valueChanged runs updateMass (line 108);   *)
(* any other leaves the box as it was and emits nothing.                   *)
EditMass ==
    \E v \in MassInputs :
        IF InRange(v, MassMin, MassMax) /\ v # nud_Mass
        THEN /\ nud_Mass' = v
             /\ updateMass(v)
             /\ UNCHANGED <<nud_MinAngle, nud_MaxAngle, nud_Damping,
                            nud_Spring, nud_InputAngle, mouseDown,
                            btn_PauseResume, simState, tracer, lim,
                            springConstant, dampingCoefficient, angle,
                            angularVelocity, dragActive, leftHeld>>
        ELSE /\ Report("editMass", <<v>>, <<>>, FALSE, <<>>, NoError)
             /\ UNCHANGED <<ui, ctl, leftHeld>>

EditSpring ==
    \E v \in SpringInputs :
        IF InRange(v, SpringMin, SpringMax) /\ v # nud_Spring
        THEN /\ nud_Spring' = v
             /\ updateSpring(v)
             /\ UNCHANGED <<nud_MinAngle, nud_MaxAngle, nud_Damping,
                            nud_Mass, nud_InputAngle, mouseDown,
                            btn_PauseResume, simState, tracer, lim,
                            mass, dampingCoefficient, angle,
                            angularVelocity, dragActive, leftHeld>>
        ELSE /\ Report("editSpring", <<v>>, <<>>, FALSE, <<>>, NoError)
             /\ UNCHANGED <<ui, ctl, leftHeld>>

EditDamping ==
    \E v \in DampingInputs :
        IF InRange(v, DampingMin, DampingMax) /\ v # nud_Damping
        THEN /\ nud_Damping' = v
             /\ updateDamping(v)
             /\ UNCHANGED <<nud_MinAngle, nud_MaxAngle, nud_Mass,
                            nud_Spring, nud_InputAngle, mouseDown,
                            btn_PauseResume, simState, tracer, lim,
                            mass, springConstant, angle,
                            angularVelocity, dragActive, leftHeld>>
        ELSE /\ Report("editDamping", <<v>>, <<>>, FALSE, <<>>, NoError)
             /\ UNCHANGED <<ui, ctl, leftHeld>>

(* The Input Angle box of Ui_Form, read by startSimulation (line 156); no  *)
(* slot of MainWindow is connected to it.                                  *)
EditInputAngle ==
    \E v \in InputAngleInputs :
        /\ nud_InputAngle' = v
        /\ Report("editInputAngle", <<v>>, <<>>, FALSE, <<>>, NoError)
        /\ UNCHANGED <<nud_MinAngle, nud_MaxAngle, nud_Damping, nud_Mass,
                       nud_Spring, mouseDown, btn_PauseResume, ctl, leftHeld>>

---------------------------------------------------------------------------
(* startSimulation, lines 157-159: zeta = c / (2 * math.sqrt(k * m)) and   *)
(* the test zeta < 0.5.  math.sqrt of a negative number raises ValueError; *)
(* sqrt(0) is 0.0 and the float division raises ZeroDivisionError.  For    *)
(* k*m > 0, c / (2*sqrt(k*m)) < 1/2 exactly when c < sqrt(k*m), that is    *)
(* when c < 0 or c*c < k*m; the test is the same in hundredths.  (The      *)
(* comparison is taken in exact arithmetic; the double computation can     *)
(* differ from it only where zeta is 0.5 to the last bit.)                 *)
ZetaOutcome_WarnIsError(m, k, c) ==
    IF k * m < 0 THEN "ValueError"
    ELSE IF k * m = 0 THEN "ZeroDivisionError"
    ELSE IF c < 0 \/ c * c < k * m THEN "ValueError"
    ELSE "ok"

ZetaOutcome(m, k, c) ==
    IF k * m < 0 THEN "ValueError"
    ELSE IF k * m = 0 THEN "ZeroDivisionError"
    ELSE IF c < 0 \/ c * c < k * m THEN "warn"
    ELSE "ok"

(* FourBarLinkage_Controller.startSimulation, from the specification       *)
(* (4.3, start): the oscillator is initialised from the parameters, the    *)
(* tracer history and the clock are reset and the loop is Running.         *)
FBL_C_startSimulation(a, m, k, c) ==
    /\ simState' = "Running"
    /\ tracer' = <<>>
    /\ angle' = a
    /\ angularVelocity' = 0
    /\ mass' = m
    /\ springConstant' = k
    /\ dampingCoefficient' = c
    /\ dragActive' = FALSE
    /\ UNCHANGED lim

(* startSimulation, lines 153-167, run by handler h (the Start button or   *)
(* the scene's mouse release).                                             *)
startSimulation(h) ==
    LET a == nud_InputAngle
        m == nud_Mass
        k == nud_Spring
        c == nud_Damping
        z == ZetaOutcome(m, k, c)
    IN  IF z \in {"ValueError", "ZeroDivisionError"}
        THEN /\ Report(h, NoInput, <<>>, FALSE,
                       << <<"startSimulation", z>> >>, NoError)
             /\ UNCHANGED ctl
        ELSE /\ Report(h, NoInput, << <<"startSimulation", a, m, k, c>> >>,
                       z = "warn", <<>>, NoError)
             /\ FBL_C_startSimulation(a, m, k, c)

(* btn_Simulate.clicked (line 110). *)
StartClicked ==
    /\ startSimulation("startSimulation")
    /\ UNCHANGED <<ui, leftHeld>>


---------------------------------------------------------------------------
(* updateAngleLimits, lines 123-133, as a function of the two boxes'       *)
(* values and the controller calls made so far: st = [mn, mx, calls].      *)
(* setValue on a box whose value changes emits valueChanged, which runs    *)
(* the slot again (lines 105-106) before setValue returns.                 *)
RECURSIVE updateAngleLimits(_)

(* QDoubleSpinBox.setValue: the value is bounded to the range; a changed   *)
(* value emits valueChanged.                                               *)
Bound(v, lo, hi) == IF v < lo THEN lo ELSE IF v > hi THEN hi ELSE v

nud_MinAngle_setValue(st, v) ==
    LET b == Bound(v, AngleMin, AngleMax)
    IN  IF b = st.mn THEN st ELSE updateAngleLimits([st EXCEPT !.mn = b])

nud_MaxAngle_setValue(st, v) ==
    LET b == Bound(v, AngleMin, AngleMax)
    IN  IF b = st.mx THEN st ELSE updateAngleLimits([st EXCEPT !.mx = b])

(* the slot without its swap: the boxes' values go to the controller as    *)
(* they are                                                                *)
updateAngleLimits_NoSwap(st) ==
    [st EXCEPT !.calls = Append(@, <<"setAngleLimits", st.mn, st.mx>>)]

(* the slot swapping the boxes but handing the controller the values it    *)
(* read before the swap                                                    *)
updateAngleLimits_StaleLocals(st) ==
    IF st.mn > st.mx
    THEN LET s1 == nud_MinAngle_setValue(st, st.mx)
             s2 == nud_MaxAngle_setValue(s1, st.mn)
         IN  [s2 EXCEPT !.calls = Append(@, <<"setAngleLimits", st.mn, st.mx>>)]
    ELSE [st EXCEPT !.calls = Append(@, <<"setAngleLimits", st.mn, st.mx>>)]

updateAngleLimits(st) ==
    IF st.mn > st.mx
    THEN LET min_angle == st.mx
             max_angle == st.mn
             s1 == nud_MinAngle_setValue(st, min_angle)
             s2 == nud_MaxAngle_setValue(s1, max_angle)
         IN  [s2 EXCEPT
                !.calls = Append(@, <<"setAngleLimits", min_angle, max_angle>>)]
    ELSE [st EXCEPT !.calls = Append(@, <<"setAngleLimits", st.mn, st.mx>>)]

(* FourBarLinkage_Controller.setAngleLimits, from the specification (6):   *)
(* the model's limits become those of the call; the last call stands.      *)
FBL_C_setAngleLimits(cs) ==
    /\ minAngle' = cs[Len(cs)][2]
    /\ maxAngle' = cs[Len(cs)][3]

(* The boxes and the model after valueChanged ran the slot on (mn, mx).    *)
AngleLimitsChanged(v, mn, mx) ==
    LET r == updateAngleLimits([mn |-> mn, mx |-> mx, calls |-> <<>>])
    IN  /\ nud_MinAngle' = r.mn
        /\ nud_MaxAngle' = r.mx
        /\ FBL_C_setAngleLimits(r.calls)
        /\ Report("updateAngleLimits", <<v>>, r.calls, FALSE, <<>>, NoError)
        /\ UNCHANGED <<nud_Damping, nud_Mass, nud_Spring, nud_InputAngle,
                       mouseDown, btn_PauseResume, simState, tracer, osc,
                       angle, angularVelocity, dragActive, leftHeld>>

(* The user types v into the Min Angle box (line 105). *)
EditMinAngle ==
    \E v \in AngleInputs :
        IF InRange(v, AngleMin, AngleMax) /\ v # nud_MinAngle
        THEN AngleLimitsChanged(v, v, nud_MaxAngle)
        ELSE /\ Report("editMinAngle", <<v>>, <<>>, FALSE, <<>>, NoError)
             /\ UNCHANGED <<ui, ctl, leftHeld>>

(* The user types v into the Max Angle box (line 106). *)
EditMaxAngle ==
    \E v \in AngleInputs :
        IF InRange(v, AngleMin, AngleMax) /\ v # nud_MaxAngle
        THEN AngleLimitsChanged(v, nud_MinAngle, v)
        ELSE /\ Report("editMaxAngle", <<v>>, <<>>, FALSE, <<>>, NoError)
             /\ UNCHANGED <<ui, ctl, leftHeld>>


---------------------------------------------------------------------------
(* FourBarLinkage_Controller.pauseResumeSimulation, from the specification *)
(* (4.3): Running and Paused toggle; a Stopped loop stays Stopped.         *)
FBL_C_pauseResumeSimulation ==
    simState' = CASE simState = "Running" -> "Paused"
                  [] simState = "Paused"  -> "Running"
                  [] OTHER                -> simState

(* is_simulation_running, read on line 173 after the toggle. *)
is_simulation_running(st) == st = "Running"

(* pauseResumeSimulation, lines 169-175. *)
pauseResumeSimulation ==
    /\ FBL_C_pauseResumeSimulation
    /\ btn_PauseResume' =
           IF is_simulation_running(simState') THEN "Pause" ELSE "Resume"
    /\ Report("pauseResumeSimulation", NoInput,
              << <<"pauseResumeSimulation">> >>, FALSE, <<>>, NoError)

(* btn_PauseResume.clicked (line 111). *)
PauseResumeClicked ==
    /\ pauseResumeSimulation
    /\ UNCHANGED <<nud_MinAngle, nud_MaxAngle, nud_Damping, nud_Mass,
                   nud_Spring, nud_InputAngle, mouseDown, tracer, lim, osc,
                   angle, angularVelocity, dragActive, leftHeld>>

(* FourBarLinkage_Controller.resetTracers, from the specification (4.3):   *)
(* clears the tracer history without affecting Running/Paused.             *)
FBL_C_resetTracers ==
    /\ tracer' = <<>>
    /\ UNCHANGED <<simState, lim, osc, angle, angularVelocity, dragActive>>

(* a reset that goes through startSimulation, as the mouse release does *)
resetTracers_Restart ==
    /\ startSimulation("resetTracers")
    /\ UNCHANGED <<ui, leftHeld>>

(* resetTracers, lines 177-182; btn_ResetTracers.clicked (line 112). *)
resetTracers ==
    /\ FBL_C_resetTracers
    /\ Report("resetTracers", NoInput, << <<"resetTracers">> >>, FALSE,
              <<>>, NoError)
    /\ UNCHANGED <<ui, leftHeld>>

(* setInputLinkLength, lines 115-117, and setOutputLinkLength, lines       *)
(* 119-121: the controller call is made outside any try; when it raises    *)
(* (a length the linkage cannot reach, 4.1) the exception leaves the slot. *)
setInputLinkLength ==
    \E raises \in BOOLEAN :
        /\ Report("setInputLinkLength", NoInput,
                  << <<"setInputLinkLength">> >>, FALSE, <<>>,
                  IF raises THEN "LinkageUnreachable" ELSE NoError)
        /\ UNCHANGED <<ui, ctl, leftHeld>>

setOutputLinkLength ==
    \E raises \in BOOLEAN :
        /\ Report("setOutputLinkLength", NoInput,
                  << <<"setOutputLinkLength">> >>, FALSE, <<>>,
                  IF raises THEN "LinkageUnreachable" ELSE NoError)
        /\ UNCHANGED <<ui, ctl, leftHeld>>

(* setZoom, lines 184-190: the view's transform only, inside a try. *)
setZoom ==
    /\ Report("setZoom", NoInput, <<>>, FALSE, <<>>, NoError)
    /\ UNCHANGED <<ui, ctl, leftHeld>>

(* mouseMoveEvent, lines 192-199: the window title only, inside a try. *)
mouseMoveEvent ==
    /\ Report("mouseMoveEvent", NoInput, <<>>, FALSE, <<>>, NoError)
    /\ UNCHANGED <<ui, ctl, leftHeld>>

---------------------------------------------------------------------------
(* FourBarLinkage_Controller.moveLinkage, from the specification (6): the  *)
(* input angle is re-derived from the drag target by an inverse solve and  *)
(* the oscillator is not advanced while the drag is active.  The core      *)
(* learns of a drag only through this call, and of its end only through    *)
(* the start that follows the release.                                     *)
FBL_C_moveLinkage(a) ==
    /\ angle' = a
    /\ dragActive' = TRUE
    /\ UNCHANGED <<simState, tracer, lim, osc, angularVelocity>>

(* eventFilter, lines 201-224, by event.  Events of another object than    *)
(* the scene fall through to the base class (line 221).                    *)
OtherObjectEvent ==
    /\ Report("eventFilter", NoInput, <<>>, FALSE, <<>>, NoError)
    /\ UNCHANGED <<ui, ctl, leftHeld>>

(* GraphicsSceneMouseMove, lines 205-210. *)
SceneMouseMove ==
    /\ UNCHANGED <<ui, leftHeld>>
    /\ IF mouseDown
       THEN \E a \in DragAngles, raises \in BOOLEAN :
                IF raises
                THEN /\ Report("sceneMouseMove", NoInput,
                               << <<"moveLinkage", a>> >>, FALSE,
                               << <<"eventFilter", "SolverDidNotConverge">> >>,
                               NoError)
                     /\ UNCHANGED ctl
                ELSE /\ Report("sceneMouseMove", NoInput,
                               << <<"moveLinkage", a>> >>, FALSE, <<>>,
                               NoError)
                     /\ FBL_C_moveLinkage(a)
       ELSE /\ Report("sceneMouseMove", NoInput, <<>>, FALSE, <<>>, NoError)
            /\ UNCHANGED ctl

(* GraphicsSceneWheel, lines 211-215: stepUp/stepDown of the zoom box,     *)
(* whose valueChanged runs setZoom (line 102).                             *)
SceneWheel ==
    /\ Report("sceneWheel", NoInput, <<>>, FALSE, <<>>, NoError)
    /\ UNCHANGED <<ui, ctl, leftHeld>>

(* GraphicsSceneMousePress, lines 216-217; a press of another button       *)
(* matches no branch.                                                      *)
SceneMousePress ==
    \E button \in {"LeftButton", "RightButton"} :
        /\ mouseDown' = IF button = "LeftButton" THEN TRUE ELSE mouseDown
        /\ leftHeld' = IF button = "LeftButton" THEN TRUE ELSE leftHeld
        /\ Report("sceneMousePress", NoInput, <<>>, FALSE, <<>>, NoError)
        /\ UNCHANGED <<nud_MinAngle, nud_MaxAngle, nud_Damping, nud_Mass,
                       nud_Spring, nud_InputAngle, btn_PauseResume, ctl>>

(* GraphicsSceneMouseRelease, lines 218-220, of any button. *)
SceneMouseRelease ==
    /\ mouseDown' = FALSE
    /\ leftHeld' = FALSE
    /\ startSimulation("sceneMouseRelease")
    /\ UNCHANGED <<nud_MinAngle, nud_MaxAngle, nud_Damping, nud_Mass,
                   nud_Spring, nud_InputAngle, btn_PauseResume>>

---------------------------------------------------------------------------
(* The simulation loop and the oscillator integrator, from the             *)
(* specification (4.2, 4.3, 5).  The clock ticks at a display rate; a      *)
(* semi-implicit Euler step of m*a + c*v + k*theta = 0 with dt =           *)
(* 1/TicksPerSecond, the velocity kept in degrees per tick:                *)
(*   w1 = w - (c*w*dt + k*theta*dt^2)/m,   theta1 = theta + w1.            *)
TicksPerSecond == 50

OscillatorStep(theta, w, m, k, c) ==
    w - ((TicksPerSecond * c * w + k * theta)
             \div (TicksPerSecond * TicksPerSecond * m))

(* Elastic limit stop (4.3): a breached bound clamps the angle and inverts *)
(* the angular velocity.                                                   *)
LimitStop(theta, w, lo, hi) ==
    IF theta < lo THEN [angle |-> lo, angularVelocity |-> 0 - w]
    ELSE IF theta > hi THEN [angle |-> hi, angularVelocity |-> 0 - w]
    ELSE [angle |-> theta, angularVelocity |-> w]

Abs(x) == IF x < 0 THEN 0 - x ELSE x

(* One Running tick: integrator step, limit stop, a point appended to the  *)
(* tracer.  No tick is taken while Paused or Stopped, nor while the core   *)
(* has a drag target.                                                      *)
Tick ==
    /\ simState = "Running"
    /\ ~dragActive
    /\ Len(tracer) < MaxTracer
    /\ LET w1 == OscillatorStep(angle, angularVelocity, mass,
                                springConstant, dampingCoefficient)
           r  == LimitStop(angle + w1, w1, minAngle, maxAngle)
       IN  /\ Abs(r.angularVelocity) <= MaxVel
           /\ angle' = r.angle
           /\ angularVelocity' = r.angularVelocity
           /\ tracer' = Append(tracer, r.angle)
    /\ Report("tick", NoInput, <<>>, FALSE, <<>>, NoError)
    /\ UNCHANGED <<ui, simState, lim, osc, dragActive, leftHeld>>

(* A tick whose kinematic solve fails (4.3): the loop goes to Stopped, the *)
(* failure is surfaced and the last valid frame is kept.                   *)
SolverFails ==
    /\ simState = "Running"
    /\ ~dragActive
    /\ simState' = "Stopped"
    /\ Report("solverFailure", NoInput, <<>>, FALSE,
              << <<"tick", "SolverDidNotConverge">> >>, NoError)
    /\ UNCHANGED <<ui, tracer, lim, osc, angle, angularVelocity, dragActive,
                   leftHeld>>

---------------------------------------------------------------------------
Next ==
    \/ EditMinAngle
    \/ EditMaxAngle
    \/ EditMass
    \/ EditSpring
    \/ EditDamping
    \/ EditInputAngle
    \/ StartClicked
    \/ PauseResumeClicked
    \/ resetTracers
    \/ setInputLinkLength
    \/ setOutputLinkLength
    \/ setZoom
    \/ mouseMoveEvent
    \/ OtherObjectEvent
    \/ SceneMouseMove
    \/ SceneWheel
    \/ SceneMousePress
    \/ SceneMouseRelease
    \/ Tick
    \/ SolverFails

Spec == Init /\ [][Next]_vars

(* The whole state space is the product of three nearly independent parts; *)
(* each is explored by a specification of its own.                         *)

(* Lifecycle: buttons, scene events and the clock, with the parameters and *)
(* limits as constructed.                                                  *)
NextLifecycle ==
    \/ StartClicked
    \/ PauseResumeClicked
    \/ resetTracers
    \/ setInputLinkLength
    \/ setOutputLinkLength
    \/ setZoom
    \/ mouseMoveEvent
    \/ OtherObjectEvent
    \/ SceneMouseMove
    \/ SceneWheel
    \/ SceneMousePress
    \/ SceneMouseRelease
    \/ Tick
    \/ SolverFails

SpecLifecycle == Init /\ [][NextLifecycle]_vars

(* Oscillator parameters: the three boxes, the input angle and the two     *)
(* ways a start is requested.                                              *)
NextParams ==
    \/ EditMass
    \/ EditSpring
    \/ EditDamping
    \/ EditInputAngle
    \/ StartClicked
    \/ SceneMousePress
    \/ SceneMouseRelease

SpecParams == Init /\ [][NextParams]_vars

(* Angle limits and the running oscillator: the two limit boxes, the start *)
(* from an input angle inside or outside the limits, the damping (none,    *)
(* light, as constructed) and the clock.                                   *)
NextLimits ==
    \/ EditMinAngle
    \/ EditMaxAngle
    \/ EditDamping
    \/ EditInputAngle
    \/ StartClicked
    \/ Tick

SpecLimits == Init /\ [][NextLimits]_vars

---------------------------------------------------------------------------
(* Properties.                                                             *)

StartHandlers == {"startSimulation", "sceneMouseRelease"}

(* C1: a start requested with k*m = 0 fails with a dedicated               *)
(* InvalidOscillatorParameters error, not by dividing by zero, and the     *)
(* controller's startSimulation is not invoked.                            *)
C1_ZeroProductFailsWithInvalidOscillatorParameters ==
    (handler \in StartHandlers /\ nud_Spring * nud_Mass = 0)
        => /\ calls = <<>>
           /\ logged = << <<"startSimulation", "InvalidOscillatorParameters">> >>

(* C2: no exception raised by a controller call leaves the handler that    *)
(* made the call; it is caught and logged inside the handler.              *)
C2_NoExceptionLeavesAHandler ==
    escaped = NoError

C4_NoTickDuringDrag ==
    ~(handler = "tick" /\ leftHeld)

(* C5: with k*m > 0 a start invokes the controller's startSimulation       *)
(* exactly once with the boxes' (angle, m, k, c) and logs no error; the    *)
(* warning is shown exactly when the damping ratio is below 0.5, that is   *)
(* when c < sqrt(k*m).                                                     *)
C5_UnderdampedIsAWarning ==
    (handler \in StartHandlers /\ nud_Spring * nud_Mass > 0)
        => /\ calls = << <<"startSimulation", nud_InputAngle, nud_Mass,
                           nud_Spring, nud_Damping>> >>
           /\ logged = <<>>
           /\ escaped = NoError
           /\ warned <=> (nud_Damping * nud_Damping < nud_Spring * nud_Mass)

(* C5 witness: an underdamped start that warned and is Running. *)
C5_Witness ==
    /\ handler = "startSimulation"
    /\ warned
    /\ nud_Damping > 0
    /\ simState = "Running"
    /\ Len(calls) = 1

(* C6: every mass forwarded to the controller is positive and every spring *)
(* constant and damping coefficient forwarded is non-negative; a typed     *)
(* non-positive mass or negative spring or damping is forwarded nowhere    *)
(* and the box and the model keep the value they had.                      *)
ForwardedValid(cs) ==
    \A i \in 1..Len(cs) :
        /\ cs[i][1] = "setMass" => cs[i][2] > 0
        /\ cs[i][1] = "setSpringConstant" => cs[i][2] >= 0
        /\ cs[i][1] = "setDampingCoefficient" => cs[i][2] >= 0
        /\ cs[i][1] = "startSimulation" =>
               cs[i][3] > 0 /\ cs[i][4] >= 0 /\ cs[i][5] >= 0

TypedInto(hs) == handler' \in hs /\ typed' # NoInput

C6_ForwardedParametersAreValid ==
    [][/\ ForwardedValid(calls')
       /\ mass' > 0 /\ springConstant' >= 0 /\ dampingCoefficient' >= 0
       /\ (TypedInto({"editMass", "updateMass"}) /\ typed'[1] <= 0)
              => calls' = <<>> /\ UNCHANGED <<nud_Mass, mass>>
       /\ (TypedInto({"editSpring", "updateSpring"}) /\ typed'[1] < 0)
              => calls' = <<>> /\ UNCHANGED <<nud_Spring, springConstant>>
       /\ (TypedInto({"editDamping", "updateDamping"}) /\ typed'[1] < 0)
              => calls' = <<>> /\ UNCHANGED <<nud_Damping, dampingCoefficient>>
      ]_vars

(* C6 witness: a mass of 0 typed after a mass of 4.00 was accepted; the    *)
(* box and the model still hold 4.00.                                      *)
C6_Witness ==
    /\ handler = "editMass"
    /\ typed = <<0>>
    /\ calls = <<>>
    /\ nud_Mass = 400
    /\ mass = 400

C8_AngleLimitsAreOrdered ==
    handler = "updateAngleLimits" =>
        /\ Len(calls) >= 1
        /\ \A i \in 1..Len(calls) :
               calls[i][1] = "setAngleLimits" /\ calls[i][2] <= calls[i][3]
        /\ nud_MinAngle <= nud_MaxAngle
        /\ calls[Len(calls)] = <<"setAngleLimits", nud_MinAngle, nud_MaxAngle>>
        /\ minAngle = nud_MinAngle /\ maxAngle = nud_MaxAngle

(* C8 witness: a run that swapped the boxes, with its two nested runs:     *)
(* 180 typed into the Min box above a Max of 90.                           *)
C8_Witness ==
    /\ handler = "updateAngleLimits"
    /\ Len(calls) = 3
    /\ typed = <<180>>
    /\ nud_MinAngle = 90
    /\ nud_MaxAngle = 180

(* C9: once the Pause/Resume button has been clicked, its text is "Pause"  *)
(* exactly when the simulation is running and "Resume" exactly when not.   *)
C9_ButtonTextAgreesWithState ==
    btn_PauseResume # "Pause/Resume" =>
        /\ btn_PauseResume = "Pause" <=> is_simulation_running(simState)
        /\ btn_PauseResume = "Resume" <=> ~is_simulation_running(simState)

(* C10: mouseDown is true exactly when a left press has occurred with no   *)
(* release after it; moveLinkage is called only on a move while mouseDown; *)
(* a release starts the simulation only when it ends a left press.         *)
C10_ReleaseStartsOnlyAfterLeftPress ==
    [][/\ mouseDown' = leftHeld'
       /\ (\E i \in 1..Len(calls') : calls'[i][1] = "moveLinkage")
              => handler' = "sceneMouseMove" /\ mouseDown
       /\ handler' = "sceneMouseRelease" => mouseDown
      ]_vars

===========================================================================
